---- MODULE Spec2Model ----
(***************************************************************************)
(* Model of src/agent.py: the plan -> approve -> execute -> refine loop of *)
(* main(), the JSON extraction of get_plan / refine_plan, display_plan and *)
(* execute_plan.                                                           *)
(*                                                                         *)
(* A text is modelled by the list that str.split on the fence marker      *)
(* gives: the chunks between the markers.  A chunk records whether it      *)
(* starts with the letters "json" and what follows.  A JSON document is an *)
(* abstract value; json.loads is the partial inverse of serialisation.    *)
(***************************************************************************)
EXTENDS Naturals, Sequences, FiniteSets, TLC

VARIABLES
    pc,             \* where main() is: one label per prompt / call site
    task,           \* main: task
    plan,           \* main: plan
    success,        \* main: success (first component of execute_plan's result)
    message,        \* main: message (second component of execute_plan's result)
    error_details,  \* argument of the pending refine_plan call
    prompt,         \* the last prompt passed to model.generate_content
    modelCalls,     \* number of model.generate_content calls made
    rawShown,       \* the "Raw AI Response" panel was printed by the last extraction
    shown,          \* panels display_plan printed for the plan now in hand
    approved,       \* answer of the last "Do you approve this plan?" prompt
    i,              \* execute_plan: loop index (1-based, as enumerate(..., 1));
                    \* a local of execute_plan, back at 1 once it has returned
    trace,          \* execute_plan: what each attempted step of this run did
    fs,             \* the filesystem: path -> content written, or Absent
    exitReason,     \* why main() left its loop
    failedExtractions, \* get_plan / refine_plan calls in a row that gave no plan
    response_text,  \* extraction alone: the text handed to the extractor
    embedded,       \* extraction alone: how response_text was built
    selected,       \* extraction alone: the substring given to json.loads
    extracted,      \* extraction alone: what came back
    xpc             \* extraction alone: position

vars == <<pc, task, plan, success, message, error_details, prompt, modelCalls,
          rawShown, shown, approved, i, trace, fs, exitReason, failedExtractions,
          response_text, embedded, selected, extracted, xpc>>

sessionVars == <<pc, task, plan, success, message, error_details, prompt,
                 modelCalls, rawShown, shown, approved, i, trace, fs, exitReason,
                 failedExtractions>>

harnessVars == <<response_text, embedded, selected, extracted, xpc>>

-----------------------------------------------------------------------------
(* Bounds *)

\* longest steps list a modelled plan carries
MaxSteps == 2
\* model.generate_content calls a modelled session makes
MaxCalls == 3

-----------------------------------------------------------------------------
(* JSON documents *)

\* a key that the dict does not have
Absent == "<absent>"

\* code content that itself contains a triple-backtick marker
FencedCode == "k<fence>"

DefaultWriteName == "output.py"
DefaultShownName == "file"

\* a step whose keys are exactly those not Absent; obj = FALSE: not a JSON object
Step(d, ic, cmd, code, fn) ==
    [obj |-> TRUE, description |-> d, is_command |-> ic, command |-> cmd,
     code |-> code, filename |-> fn]

NotAnObject ==
    [obj |-> FALSE, description |-> Absent, is_command |-> Absent,
     command |-> Absent, code |-> Absent, filename |-> Absent]

CommandStep == Step("d", "true", "c1", Absent, Absent)
FileStep == Step("d", "false", Absent, "k1", "f1")
\* has code and filename but no is_command key
UntaggedFileStep == Step("d", Absent, Absent, "k2", "f1")
\* has code but no filename key
UnnamedFileStep == Step("d", "false", Absent, "k1", Absent)
\* neither a command step nor a step carrying code
EmptyStep == Step("d", "false", Absent, Absent, Absent)
\* is_command is true but there is no command key
CommandlessStep == Step("d", "true", Absent, Absent, Absent)
\* no description key
UndescribedStep == Step(Absent, "true", "c1", Absent, Absent)

StepPool ==
    { CommandStep, FileStep, UntaggedFileStep, UnnamedFileStep, EmptyStep,
      CommandlessStep }

StepSeqs == UNION { [1..n -> StepPool] : n \in 0..MaxSteps }

\* Python None: what json.loads gives for null, and what the except branch returns
PyNone == [kind |-> "None", plan_description |-> Absent, has_steps |-> FALSE, steps |-> <<>>]

Dict(pd, hs, ss) == [kind |-> "dict", plan_description |-> pd, has_steps |-> hs, steps |-> ss]

EmptyDict == Dict(Absent, FALSE, <<>>)
EmptyList == [kind |-> "list", plan_description |-> Absent, has_steps |-> FALSE, steps |-> <<>>]
Number == [kind |-> "num", plan_description |-> Absent, has_steps |-> FALSE, steps |-> <<>>]

\* a well-formed plan whose code string contains a triple-backtick marker
FencePlan == Dict("p", TRUE, <<Step("d", "false", Absent, FencedCode, "f1")>>)

Docs ==
    { Dict("p", TRUE, ss) : ss \in StepSeqs }
    \cup { Dict(Absent, TRUE, <<CommandStep>>),
           Dict("p", FALSE, <<>>),
           Dict("p", TRUE, <<UndescribedStep>>),
           Dict("p", TRUE, <<CommandStep, UndescribedStep>>),
           Dict("p", TRUE, <<FileStep, NotAnObject>>),
           EmptyDict, EmptyList, Number, PyNone, FencePlan }

TruthyOnlyWithSteps(doc) ==
    doc.kind = "dict" /\ doc.has_steps /\ doc.steps # <<>>

\* Python truthiness of a parsed document (main: "if not plan")
Truthy(doc) ==
    CASE doc.kind = "None" -> FALSE
      [] doc.kind = "list" -> FALSE
      [] doc.kind = "dict" -> doc.plan_description # Absent \/ doc.has_steps
      [] OTHER -> TRUE

-----------------------------------------------------------------------------
(* Texts: the chunks between triple-backtick markers *)

Body(k, d) == [k |-> k, d |-> d]
Chunk(tag, k, d) == [tag |-> tag, body |-> Body(k, d)]

Prose == Chunk(FALSE, "prose", PyNone)
Blank == Chunk(FALSE, "empty", PyNone)

HasFence(doc) == \E n \in 1..Len(doc.steps) : doc.steps[n].code = FencedCode

\* json.dumps: one chunk, or two around the marker inside the string
Ser(doc) ==
    IF HasFence(doc)
    THEN <<Chunk(FALSE, "jsonL", doc), Chunk(FALSE, "jsonR", doc)>>
    ELSE <<Chunk(FALSE, "json", doc)>>

\* the same chunks with the letters "json" put before the first
Tagged(chunks) == <<[chunks[1] EXCEPT !.tag = TRUE]>> \o Tail(chunks)

RawText(doc) == Ser(doc)
FencedText(doc, pre, post) == <<pre>> \o Ser(doc) \o <<post>>
JsonFencedText(doc, pre, post) == <<pre>> \o Tagged(Ser(doc)) \o <<post>>

Block(fmt, chunks) == IF fmt = "json" THEN Tagged(chunks) ELSE chunks

TwoBlocks(f1, c1, f2, c2) ==
    <<Prose>> \o Block(f1, c1) \o <<Blank>> \o Block(f2, c2) \o <<Prose>>

-----------------------------------------------------------------------------
(* The extraction shared by get_plan and refine_plan *)

\* '"```json" in response_text': some marker is directly followed by "json"
HasJsonFence(text) == \E k \in 2..Len(text) : text[k].tag

FirstJsonFence(text) ==
    CHOOSE k \in 2..Len(text) :
        text[k].tag /\ \A j \in 2..(k - 1) : ~text[j].tag

SelectFirstFence(text) ==
    IF Len(text) >= 2 THEN [text[2] EXCEPT !.tag = FALSE] ELSE text[1]

\* the substring handed to json.loads
SelectJson(text) ==
    IF HasJsonFence(text)
    THEN \* split("```json")[1].split("```")[0]
         [text[FirstJsonFence(text)] EXCEPT !.tag = FALSE]
    ELSE IF Len(text) >= 2
    THEN \* split("```")[1].split("```")[0]
         text[2]
    ELSE text[1]

\* json.loads: surrounding whitespace is allowed, anything else is a JSONDecodeError
JsonLoads(chunk) ==
    IF ~chunk.tag /\ chunk.body.k = "json"
    THEN [ok |-> TRUE, doc |-> chunk.body.d]
    ELSE [ok |-> FALSE, doc |-> PyNone]

\* the try/except of get_plan and refine_plan: the value returned and whether the
\* raw response panel was printed
ExtractPlan(text) ==
    LET r == JsonLoads(SelectJson(text))
    IN  [plan |-> r.doc, raw_shown |-> ~r.ok]

-----------------------------------------------------------------------------
(* What the model and the operator may answer *)

Tasks == {"t1", "t2"}
Feedbacks == {"fb"}

\* documents that the session also receives inside fences
WrappedDocs ==
    { Dict("p", TRUE, <<CommandStep>>), EmptyDict, FencePlan }

Responses ==
    { RawText(d) : d \in Docs }
    \cup { FencedText(d, Prose, Prose) : d \in WrappedDocs }
    \cup { JsonFencedText(d, Prose, Blank) : d \in WrappedDocs }
    \cup { <<Prose>> }

Paths == {"f1", DefaultWriteName}

GetPlanPrompt(t) == [fn |-> "get_plan", task |-> t, error_details |-> <<>>]
RefinePromptWithoutDetail(t, e) ==
    [fn |-> "refine_plan", task |-> t, error_details |-> <<>>]

RefinePrompt(t, e) == [fn |-> "refine_plan", task |-> t, error_details |-> e]
NoPrompt == [fn |-> "none", task |-> Absent, error_details |-> <<>>]

-----------------------------------------------------------------------------
(* display_plan *)

IsDict(doc) == doc.kind = "dict"

\* step.get("is_command", False) is truthy
IsCommand(step) == step.is_command = "true"

\* display_plan raises on this step: step['description'] or step["command"]
DisplayRaises(step) ==
    \/ ~step.obj
    \/ step.description = Absent
    \/ IsCommand(step) /\ step.command = Absent

Panel(n, step) ==
    IF IsCommand(step)
    THEN [idx |-> n, title |-> "Command to Execute", text |-> step.command,
          filename |-> Absent]
    ELSE IF step.code # Absent
    THEN [idx |-> n, title |-> "Code to Save in", text |-> step.code,
          filename |-> IF step.filename # Absent THEN step.filename
                       ELSE DefaultShownName]
    ELSE [idx |-> n, title |-> "none", text |-> Absent, filename |-> Absent]

\* index of the first step display_plan raises on, or Len + 1
FirstRaising(steps) ==
    IF \E n \in 1..Len(steps) : DisplayRaises(steps[n])
    THEN CHOOSE n \in 1..Len(steps) :
            DisplayRaises(steps[n]) /\ \A m \in 1..(n - 1) : ~DisplayRaises(steps[m])
    ELSE Len(steps) + 1

Display(doc) ==
    IF ~IsDict(doc) \/ doc.plan_description = Absent \/ ~doc.has_steps
    THEN [panels |-> <<>>, raised |-> TRUE]
    ELSE LET k == FirstRaising(doc.steps)
         IN  [panels |-> [n \in 1..(k - 1) |-> Panel(n, doc.steps[n])],
              raised |-> k <= Len(doc.steps)]

-----------------------------------------------------------------------------
(* execute_plan: one iteration of its loop *)

\* what the machine does with a command or a write
\* what a failing command leaves on its standard error
Stderrs == {"e1"}

\* "ok": exit status 0 / the write completes; a member of Stderrs: the command
\* exits non-zero with that standard error; "raise": subprocess.run or open
\* raises; "partial": open succeeds and f.write or the close raises
Outcomes == {"ok", "raise", "partial"} \cup Stderrs

\* what open(filename, "w") leaves behind when the write after it raises: the
\* file emptied, or holding only part of the code
Truncated == "<truncated>"

Entry(n, kind, target, status) ==
    [idx |-> n, kind |-> kind, target |-> target, status |-> status,
     stderr |-> Absent]

\* a command that exited non-zero, with result.stderr
FailedEntry(n, command, stderr) ==
    [Entry(n, "command", command, "failed") EXCEPT !.stderr = stderr]

CommandFailedWithoutStderr(stderr) == <<"Command failed: ", "">>


CommandFailed(stderr) == <<"Command failed: ", stderr>>
AllStepsCompleted == <<"All steps completed successfully">>

\* the destination execute_plan opens
WriteName(step) ==
    IF step.filename # Absent THEN step.filename ELSE DefaultWriteName

\* step['description'] of the progress line, which is outside the try
ProgressLineRaises(step) == ~step.obj \/ step.description = Absent

\* a step that did not succeed ends the run with "return False, ..."; any other
\* falls through to the next turn of the loop
StepGoContinuing(status) == "next"

StepGo(status) ==
    IF status \in {"failed", "error"} THEN "return" ELSE "next"

Result(msg, files, entry) ==
    [go |-> StepGo(entry.status), msg |-> msg, files |-> files, entry |-> entry]

\* the body of the try for one step under outcome o
TryStep(n, step, o, files) ==
    IF IsCommand(step)
    THEN IF step.command = Absent
         THEN Result(<<"'command'">>, files, Entry(n, "command", Absent, "error"))
         ELSE CASE o = "ok" ->
                   Result(<<>>, files, Entry(n, "command", step.command, "success"))
                [] o \in Stderrs ->
                   Result(CommandFailed(o), files,
                          FailedEntry(n, step.command, o))
                [] OTHER ->
                   Result(<<"oserror">>, files,
                          Entry(n, "command", step.command, "error"))
    ELSE IF step.code # Absent
    THEN CASE o = "ok" ->
                Result(<<>>, [files EXCEPT ![WriteName(step)] = step.code],
                       Entry(n, "file", WriteName(step), "success"))
           [] o = "partial" ->
                Result(<<"ioerror">>, [files EXCEPT ![WriteName(step)] = Truncated],
                       Entry(n, "file", WriteName(step), "error"))
           [] OTHER ->
                Result(<<"ioerror">>, files,
                       Entry(n, "file", WriteName(step), "error"))
    ELSE Result(<<>>, files, Entry(n, "none", Absent, "skipped"))

-----------------------------------------------------------------------------
(* main() *)

Init ==
    /\ pc = "Setup"
    /\ task = Absent
    /\ plan = PyNone
    /\ success = FALSE
    /\ message = <<>>
    /\ error_details = <<>>
    /\ prompt = NoPrompt
    /\ modelCalls = 0
    /\ rawShown = FALSE
    /\ shown = <<>>
    /\ approved = FALSE
    /\ i = 0
    /\ trace = <<>>
    /\ fs = [p \in Paths |-> Absent]
    /\ exitReason = "running"
    /\ failedExtractions = 0
    /\ response_text = <<Blank>>
    /\ embedded = <<>>
    /\ selected = Blank
    /\ extracted = [plan |-> PyNone, raw_shown |-> FALSE]
    /\ xpc = "idle"

\* setup_api and the reading of the task
Setup ==
    /\ pc = "Setup"
    /\ \E ok \in BOOLEAN :
         IF ok
         THEN \E t \in Tasks :
                /\ task' = t
                /\ pc' = "AwaitingPlan"
                /\ exitReason' = exitReason
         ELSE /\ pc' = "Aborted"
              /\ exitReason' = "credential"
              /\ task' = task
    /\ UNCHANGED <<plan, success, message, error_details, prompt, modelCalls,
                   rawShown, shown, approved, i, trace, fs>>
    /\ UNCHANGED failedExtractions
    /\ UNCHANGED harnessVars

AfterGetPlanRetrying(p) == IF Truthy(p) THEN "Presenting" ELSE "AwaitingPlan"

\* "if not plan: ... break" after get_plan
AfterGetPlan(p) == IF Truthy(p) THEN "Presenting" ELSE "Aborted"

\* plan = get_plan(model, task); if not plan: break
GetPlan ==
    /\ pc = "AwaitingPlan"
    /\ modelCalls < MaxCalls
    /\ modelCalls' = modelCalls + 1
    /\ prompt' = GetPlanPrompt(task)
    /\ \E r \in Responses :
         LET x == ExtractPlan(r)
         IN  /\ plan' = x.plan
             /\ rawShown' = x.raw_shown
             /\ pc' = AfterGetPlan(x.plan)
             /\ exitReason' = IF Truthy(x.plan) THEN exitReason ELSE "no_plan"
             /\ failedExtractions' =
                  IF Truthy(x.plan) THEN 0 ELSE failedExtractions + 1
    /\ shown' = <<>>
    /\ trace' = <<>>
    /\ approved' = FALSE
    /\ UNCHANGED <<task, success, message, error_details, i, fs>>
    /\ UNCHANGED harnessVars

\* model.generate_content raises: nothing in main() catches it
ModelCallRaises ==
    /\ pc \in {"AwaitingPlan", "Refining"}
    /\ modelCalls < MaxCalls
    /\ modelCalls' = modelCalls + 1
    /\ prompt' = IF pc = "Refining" THEN RefinePrompt(task, error_details)
                 ELSE GetPlanPrompt(task)
    /\ pc' = "Crashed"
    /\ exitReason' = "model call raised"
    /\ UNCHANGED <<task, plan, success, message, error_details, rawShown, shown,
                   approved, i, trace, fs>>
    /\ UNCHANGED failedExtractions
    /\ UNCHANGED harnessVars

\* display_plan(plan)
DisplayPlan ==
    /\ pc = "Presenting"
    /\ LET d == Display(plan)
       IN  /\ shown' = d.panels
           /\ IF d.raised
              THEN pc' = "Crashed" /\ exitReason' = "display_plan raised"
              ELSE pc' = "AwaitingApproval" /\ exitReason' = exitReason
    /\ UNCHANGED <<task, plan, success, message, error_details, prompt, modelCalls,
                   rawShown, approved, i, trace, fs>>
    /\ UNCHANGED failedExtractions
    /\ UNCHANGED harnessVars

AfterConfirmIgnoringAnswer(answer) == "Executing"

\* "if not Confirm.ask(...): ... break"
AfterConfirm(answer) == IF answer THEN "Executing" ELSE "Aborted"

\* Confirm.ask("Do you approve this plan?"), then the call of execute_plan
ConfirmPlan ==
    /\ pc = "AwaitingApproval"
    /\ \E answer \in BOOLEAN :
         /\ approved' = answer
         /\ pc' = AfterConfirm(answer)
         /\ exitReason' = IF answer THEN exitReason ELSE "rejected"
    /\ i' = 1
    /\ trace' = <<>>
    /\ UNCHANGED <<task, plan, success, message, error_details, prompt, modelCalls,
                   rawShown, shown, fs>>
    /\ UNCHANGED failedExtractions
    /\ UNCHANGED harnessVars

\* one turn of execute_plan's loop, or its return once the steps are exhausted,
\* with main()'s branch on the result
ExecuteStep ==
    /\ pc = "Executing"
    /\ \E o \in Outcomes :
         IF ~IsDict(plan) \/ ~plan.has_steps
         THEN \* plan["steps"] raises
              /\ pc' = "Crashed"
              /\ exitReason' = "execute_plan raised"
              /\ UNCHANGED <<success, message, error_details, i, trace, fs>>
         ELSE IF i > Len(plan.steps)
         THEN /\ success' = TRUE
              /\ message' = AllStepsCompleted
              /\ pc' = "AwaitingOutcome"
              /\ i' = 1
              /\ UNCHANGED <<error_details, trace, fs, exitReason>>
         ELSE IF ProgressLineRaises(plan.steps[i])
         THEN /\ pc' = "Crashed"
              /\ exitReason' = "execute_plan raised"
              /\ UNCHANGED <<success, message, error_details, i, trace, fs>>
         ELSE LET t == TryStep(i, plan.steps[i], o, fs)
              IN  /\ trace' = Append(trace, t.entry)
                  /\ fs' = t.files
                  /\ IF t.go = "next"
                     THEN /\ i' = i + 1
                          /\ UNCHANGED <<success, message, error_details, pc>>
                     ELSE /\ success' = FALSE
                          /\ message' = t.msg
                          /\ error_details' = t.msg
                          /\ pc' = "Refining"
                          /\ i' = 1
                  /\ exitReason' = exitReason
    /\ UNCHANGED <<task, plan, prompt, modelCalls, rawShown, shown, approved>>
    /\ UNCHANGED failedExtractions
    /\ UNCHANGED harnessVars

AfterOutcomeAlwaysRefining(answer) == "Refining"

\* "if Confirm.ask(...): ... break", else on to the feedback prompt and refine_plan
AfterOutcome(answer) == IF answer = "yes" THEN "Done" ELSE "Refining"

\* Confirm.ask("Was the task successful?") and, on no, the feedback prompt
AskOutcome ==
    /\ pc = "AwaitingOutcome"
    /\ \E answer \in {"yes"} \cup Feedbacks :
         IF answer = "yes"
         THEN /\ pc' = AfterOutcome(answer)
              /\ exitReason' = "done"
              /\ error_details' = error_details
         ELSE /\ pc' = AfterOutcome(answer)
              /\ error_details' = <<answer>>
              /\ exitReason' = exitReason
    /\ UNCHANGED <<task, plan, success, message, prompt, modelCalls, rawShown,
                   shown, approved, i, trace, fs>>
    /\ UNCHANGED failedExtractions
    /\ UNCHANGED harnessVars

AfterRefinePlanRetrying(p) == "AwaitingPlan"

\* "if not plan: ... break" after refine_plan; else the while loop starts over
AfterRefinePlan(p) == IF Truthy(p) THEN "AwaitingPlan" ELSE "Aborted"

\* plan = refine_plan(model, task, ...); if not plan: break; else back to the
\* top of the while loop
RefinePlan ==
    /\ pc = "Refining"
    /\ modelCalls < MaxCalls
    /\ modelCalls' = modelCalls + 1
    /\ prompt' = RefinePrompt(task, error_details)
    /\ \E r \in Responses :
         LET x == ExtractPlan(r)
         IN  /\ plan' = x.plan
             /\ rawShown' = x.raw_shown
             /\ pc' = AfterRefinePlan(x.plan)
             /\ exitReason' = IF Truthy(x.plan) THEN exitReason ELSE "refine_failed"
             /\ failedExtractions' =
                  IF Truthy(x.plan) THEN 0 ELSE failedExtractions + 1
    /\ shown' = <<>>
    /\ trace' = <<>>
    /\ approved' = FALSE
    /\ UNCHANGED <<task, success, message, error_details, i, fs>>
    /\ UNCHANGED harnessVars

Next ==
    \/ Setup
    \/ GetPlan
    \/ ModelCallRaises
    \/ DisplayPlan
    \/ ConfirmPlan
    \/ ExecuteStep
    \/ AskOutcome
    \/ RefinePlan

Spec == Init /\ [][Next]_vars

\* every model call, prompt, command and write returns: a step that can be taken
\* is taken
SpecFair == Init /\ [][Next]_vars /\ WF_vars(Next)

-----------------------------------------------------------------------------
(* execute_plan called on its own, on any parsed document *)

\* content a file holds from before the call
OldContent == "old"

InitExecute ==
    /\ pc = "Executing"
    /\ task \in Tasks
    /\ plan \in Docs
    /\ success = FALSE
    /\ message = <<>>
    /\ error_details = <<>>
    /\ prompt = GetPlanPrompt(task)
    /\ modelCalls = 1
    /\ rawShown = FALSE
    /\ shown = <<>>
    /\ approved = TRUE
    /\ i = 1
    /\ trace = <<>>
    /\ fs \in [Paths -> {Absent, OldContent}]
    /\ exitReason = "running"
    /\ failedExtractions = 0
    /\ response_text = <<Blank>>
    /\ embedded = <<>>
    /\ selected = Blank
    /\ extracted = [plan |-> PyNone, raw_shown |-> FALSE]
    /\ xpc = "idle"

NextExecute == ExecuteStep

SpecExecute == InitExecute /\ [][NextExecute]_vars

-----------------------------------------------------------------------------
(* The extraction applied to texts built from known documents *)

Embed(fmt, content) == [fmt |-> fmt, content |-> content]

\* what a fenced block may hold: a document free of markers, or other text
BlockDocs == { Dict("p", TRUE, <<CommandStep>>), Dict("p", TRUE, <<FileStep>>), EmptyDict }
BlockContents == { Ser(d)[1] : d \in BlockDocs } \cup { Prose }

Margins == {Prose, Blank}

\* one document, raw or in one fence
SingleInputs ==
    { [text |-> RawText(d), built |-> <<Embed("raw", Ser(d))>>] : d \in Docs }
    \cup { [text |-> FencedText(d, m[1], m[2]), built |-> <<Embed("plain", Ser(d))>>] :
             d \in Docs, m \in Margins \X Margins }
    \cup { [text |-> JsonFencedText(d, m[1], m[2]), built |-> <<Embed("json", Ser(d))>>] :
             d \in Docs, m \in Margins \X Margins }

\* two fenced blocks of different content
TwoBlockInputs ==
    { [text |-> TwoBlocks(f[1], <<c[1]>>, f[2], <<c[2]>>),
       built |-> <<Embed(f[1], <<c[1]>>), Embed(f[2], <<c[2]>>)>>] :
        f \in {"plain", "json"} \X {"plain", "json"},
        c \in { cc \in BlockContents \X BlockContents : cc[1] # cc[2] } }

InitExtract ==
    /\ pc = "Setup"
    /\ task = Absent
    /\ plan = PyNone
    /\ success = FALSE
    /\ message = <<>>
    /\ error_details = <<>>
    /\ prompt = NoPrompt
    /\ modelCalls = 0
    /\ rawShown = FALSE
    /\ shown = <<>>
    /\ approved = FALSE
    /\ i = 0
    /\ trace = <<>>
    /\ fs = [p \in Paths |-> Absent]
    /\ exitReason = "running"
    /\ failedExtractions = 0
    /\ \E in \in SingleInputs \cup TwoBlockInputs :
         /\ response_text = in.text
         /\ embedded = in.built
    /\ selected = Blank
    /\ extracted = [plan |-> PyNone, raw_shown |-> FALSE]
    /\ xpc = "ready"

\* lines 70-83 (and 166-179) on response_text
Extract ==
    /\ xpc = "ready"
    /\ selected' = SelectJson(response_text)
    /\ extracted' = ExtractPlan(response_text)
    /\ xpc' = "done"
    /\ UNCHANGED <<response_text, embedded>>
    /\ UNCHANGED sessionVars

NextExtract == Extract

SpecExtract == InitExtract /\ [][NextExtract]_vars

-----------------------------------------------------------------------------
(* Properties *)

\* display_plan showed the plan in hand, all of it, without raising
Presented == shown = Display(plan).panels /\ ~Display(plan).raised

Performed(e) == e.kind \in {"command", "file"} /\ e.status = "success"

\* C1: once a refinement has been asked for, every plan that reaches display_plan
\* is the one refine_plan returned: the latest model call before it is presented
\* is the refine_plan call, not a further get_plan call.
C1_RefinedPlanIsPresented ==
    (pc = "Presenting" /\ error_details # <<>>) => prompt.fn = "refine_plan"

\* C2: a step is attempted, and the filesystem changes, only while executing a
\* plan that display_plan showed in full and the operator approved in the last
\* approval prompt; after a rejection nothing is executed and no model call is made.
C2_ExecutedOnlyIfApproved ==
    /\ [](pc = "Executing" => (approved /\ Presented))
    /\ [][(fs' # fs \/ (trace' # trace /\ trace' # <<>>))
            => (pc = "Executing" /\ approved /\ Presented /\ plan' = plan)]_vars
    /\ [][(exitReason = "rejected" \/ exitReason' = "rejected")
            => (pc' = "Aborted" /\ fs' = fs /\ trace' = <<>>
                /\ modelCalls' = modelCalls)]_vars

\* C2 witness: an approved, presented plan has had a file step carried out
C2_Witness ==
    /\ pc = "Executing"
    /\ approved
    /\ \E n \in DOMAIN trace : trace[n].kind = "file" /\ trace[n].status = "success"

\* C3: execute_plan attempts steps 1, 2, ... in order, each once; every attempted
\* step but the last succeeded or was passed over; once a step has failed the run
\* is over, and the filesystem holds nothing but what the attempted steps left:
\* no write of a later step.
C3_InOrderUntilFirstFailure ==
    /\ \A n \in DOMAIN trace : trace[n].idx = n
    /\ \A n \in DOMAIN trace :
         n < Len(trace) => trace[n].status \in {"success", "skipped"}
    /\ Len(trace) <= Len(plan.steps)
    /\ pc = "Executing" => i = Len(trace) + 1
    /\ (trace # <<>> /\ trace[Len(trace)].status \in {"failed", "error"})
         => pc = "Refining"
    /\ \A p \in Paths :
         fs[p] \notin {Absent, OldContent} =>
           \E n \in DOMAIN trace :
             /\ trace[n].kind = "file"
             /\ trace[n].target = p
             /\ \/ trace[n].status = "success" /\ plan.steps[n].code = fs[p]
                \/ trace[n].status = "error" /\ fs[p] = Truncated

\* C3 witness: step 1 of a two-step plan failed and step 2 was never attempted
C3_Witness ==
    /\ pc = "Refining"
    /\ Len(plan.steps) = 2
    /\ Len(trace) = 1
    /\ trace[1].status = "failed"
    /\ plan.steps[2].code # Absent
    /\ \A p \in Paths : fs[p] \in {Absent, OldContent}

\* C4: execute_plan reports success only if every step of the plan was carried
\* out: a command that exited 0 or a file write that completed.
C4_SuccessMeansEveryStepDone ==
    (pc = "AwaitingOutcome" /\ success) =>
        \A n \in 1..Len(plan.steps) :
            \E m \in DOMAIN trace : trace[m].idx = n /\ Performed(trace[m])

\* the plan schema: description, steps, and per step the discriminator and the
\* fields of its variant
ConformingStep(step) ==
    /\ step.obj
    /\ step.is_command \in {"true", "false"}
    /\ step.is_command = "true" => step.command # Absent
    /\ step.is_command = "false" => (step.filename # Absent /\ step.code # Absent)

Conforms(doc) ==
    /\ IsDict(doc)
    /\ doc.plan_description # Absent
    /\ doc.has_steps
    /\ \A n \in 1..Len(doc.steps) : ConformingStep(doc.steps[n])

\* C5: a plan that is presented or executed conforms to the plan schema.
C5_OnlyConformingPlans ==
    (pc \in {"Presenting", "AwaitingApproval", "Executing"} \/ trace # <<>>)
        => Conforms(plan)

\* the extraction ran on a text holding two fenced blocks / one document
TwoBlocksDone == xpc = "done" /\ Len(embedded) = 2
OneDocDone == xpc = "done" /\ Len(embedded) = 1

ContentOf(e) == e.content[1]

\* C6 as stated: of two fenced blocks, whatever their tags, the first block of
\* the text is the one handed to the parser.
C6_FirstBlockOnly ==
    TwoBlocksDone => selected = ContentOf(embedded[1])

\* C6 amended: of two fenced blocks the parser gets the first block tagged json
\* when one is tagged, and the first block of the text when none is; nothing of
\* the other block is used.
C6_FirstJsonBlockElseFirst ==
    TwoBlocksDone =>
        /\ selected =
             IF embedded[1].fmt = "json" THEN ContentOf(embedded[1])
             ELSE IF embedded[2].fmt = "json" THEN ContentOf(embedded[2])
             ELSE ContentOf(embedded[1])
        /\ extracted.plan = JsonLoads(selected).doc

\* C6 witness: an untagged block then a json block: the plan of the second block
\* is the one extracted
C6_Witness ==
    /\ TwoBlocksDone
    /\ embedded[1].fmt = "plain"
    /\ embedded[2].fmt = "json"
    /\ ContentOf(embedded[1]).body.k = "json"
    /\ Truthy(extracted.plan)
    /\ extracted.plan = ContentOf(embedded[2]).body.d
    /\ extracted.plan # ContentOf(embedded[1]).body.d

\* C7: a plan that conforms to the schema is recovered unchanged whether it comes
\* raw, in an untagged fence or in a json fence.
C7_SamePlanUnderAnyFence ==
    (OneDocDone /\ Conforms(ContentOf(embedded[1]).body.d)) =>
        (extracted.plan = ContentOf(embedded[1]).body.d /\ ~extracted.raw_shown)

\* C8: no exception raised while execute_plan is on a step leaves execute_plan.
C8_StepExceptionsAreCaught ==
    ~(/\ pc = "Crashed"
      /\ exitReason = "execute_plan raised"
      /\ IsDict(plan) /\ plan.has_steps
      /\ i \in 1..Len(plan.steps))

\* C9: every path execute_plan wrote is the filename display_plan showed for
\* that step.
C9_WrittenPathWasShown ==
    \A n \in DOMAIN trace :
        (trace[n].kind = "file" /\ trace[n].status = "success") =>
            \E m \in DOMAIN shown :
                shown[m].idx = trace[n].idx /\ shown[m].filename = trace[n].target

\* C10: when the loop is left for lack of a plan, the raw response panel was
\* printed by the extraction that gave no plan.
C10_RawShownBeforeStop ==
    exitReason \in {"no_plan", "refine_failed"} => rawShown

\* the step execute_plan attempted last in the run at hand
LastEntry == trace[Len(trace)]

\* C11 as stated: the detail of a command that exited non-zero is its captured
\* standard error.
C11_DetailIsStderr ==
    (trace # <<>> /\ LastEntry.status = "failed") => message = <<LastEntry.stderr>>

\* C11 amended: a command that exits 0 counts as success and the loop goes on to
\* the next step; one that exits non-zero ends the run with failure, the detail
\* being "Command failed: " followed by its captured standard error; and the
\* detail of a failed run is, unchanged, what refine_plan is given.
C11_ExitStatusDecides ==
    /\ (trace # <<>> /\ LastEntry.status = "success" /\ pc = "Executing")
         => i = Len(trace) + 1
    /\ (trace # <<>> /\ LastEntry.status = "success" /\ pc = "Refining") => success
    /\ (trace # <<>> /\ LastEntry.status = "failed")
         => (/\ ~success
             /\ message = <<"Command failed: ", LastEntry.stderr>>
             /\ pc \in {"Refining", "Crashed"}
             /\ error_details = message)
    /\ (pc = "Refining" /\ ~success)
         => (/\ trace # <<>>
             /\ LastEntry.status \in {"failed", "error"}
             /\ error_details = message)
    /\ prompt.fn = "refine_plan" => prompt.error_details = error_details

\* C11 witness: refine_plan has been called with the detail of a command that
\* wrote e1 to its standard error
C11_Witness ==
    /\ prompt.fn = "refine_plan"
    /\ pc = "AwaitingPlan"
    /\ ~success
    /\ message = <<"Command failed: ", "e1">>
    /\ prompt.error_details = message

\* every step of the plan in hand was carried out in the run at hand
EveryStepPerformed ==
    \A n \in 1..Len(plan.steps) :
        \E m \in DOMAIN trace : trace[m].idx = n /\ Performed(trace[m])

\* C12: a failed run goes to Refining with execute_plan's detail and is never
\* followed by the outcome question; a successful run is always followed by it;
\* Done is reached only by a yes to that question, so at Done the plan executed
\* last succeeded in every step; a no leads to Refining with the operator's
\* feedback.
C12_OutcomeQuestionGatesDone ==
    /\ [](pc = "AwaitingOutcome" => (success /\ message = AllStepsCompleted))
    /\ []((pc = "Refining" /\ ~success) => error_details = message)
    /\ []((pc = "Refining" /\ success)
            => \E f \in Feedbacks : error_details = <<f>>)
    /\ [](pc = "Done" => (success /\ exitReason = "done" /\ EveryStepPerformed))
    /\ [][(pc = "Executing" /\ pc' # "Executing")
            => \/ pc' = "AwaitingOutcome" /\ success'
               \/ pc' = "Refining" /\ ~success'
               \/ pc' = "Crashed"]_vars
    /\ [][pc' = "Done" => pc = "AwaitingOutcome"]_vars
    /\ [][pc' = "AwaitingOutcome" => (pc = "Executing" /\ success')]_vars
    /\ [][pc = "AwaitingOutcome" => pc' \in {"Done", "Refining"}]_vars

\* main() has returned, or an exception has ended the process
Terminated == pc \in {"Done", "Aborted", "Crashed"}

\* C13 as stated: the session ends only on a credential failure, a declined plan,
\* an accepted outcome or two extraction failures in a row; one extraction
\* failure does not end it.
C13_OnlyRepeatedExtractionFailureEnds ==
    /\ Terminated =>
         \/ exitReason \in {"credential", "rejected", "done"}
         \/ exitReason \in {"no_plan", "refine_failed"} /\ failedExtractions >= 2
    /\ failedExtractions = 1 => ~Terminated

\* C13 amended: the session ends only on a credential failure, a declined plan,
\* an accepted outcome, a single extraction failure (get_plan or refine_plan
\* giving no plan), or an exception nothing catches (a model call, display_plan
\* or execute_plan raising); the first extraction failure ends it at once.
C13_TerminationReasons ==
    /\ Terminated <=> exitReason # "running"
    /\ pc = "Done" => exitReason = "done"
    /\ pc = "Aborted" =>
         exitReason \in {"credential", "rejected", "no_plan", "refine_failed"}
    /\ pc = "Crashed" =>
         exitReason \in {"model call raised", "display_plan raised",
                         "execute_plan raised"}
    /\ failedExtractions <= 1
    /\ failedExtractions = 1 <=> exitReason \in {"no_plan", "refine_failed"}
    /\ exitReason \in {"no_plan", "refine_failed"} => (pc = "Aborted" /\ ~Truthy(plan))

\* C13 witness: after a first plan was executed, the one refinement that gave no
\* plan ended the session
C13_Witness ==
    /\ pc = "Aborted"
    /\ exitReason = "refine_failed"
    /\ failedExtractions = 1
    /\ modelCalls = 2

\* the loop was left because get_plan or refine_plan gave no plan
NoPlanExit == exitReason \in {"no_plan", "refine_failed"}

\* C14: a get_plan or refine_plan call that yields no plan takes the session to
\* Aborted, and from then on nothing is displayed, no prompt is answered, no step
\* is executed, no file is written and no model call is made.
C14_NoPlanAborts ==
    /\ [](failedExtractions >= 1 => (pc = "Aborted" /\ NoPlanExit))
    /\ [][(pc \in {"AwaitingPlan", "Refining"} /\ modelCalls' # modelCalls
           /\ pc' # "Crashed" /\ ~Truthy(plan'))
            => (pc' = "Aborted" /\ shown' = <<>> /\ trace' = <<>> /\ fs' = fs)]_vars
    /\ [][(NoPlanExit \/ failedExtractions >= 1)
            => UNCHANGED <<pc, plan, shown, approved, success, error_details,
                           trace, fs, prompt, modelCalls>>]_vars

\* C14 witness: the session is Aborted because refine_plan parsed a falsy
\* document, after one plan was run
C14_Witness ==
    /\ pc = "Aborted"
    /\ exitReason = "refine_failed"
    /\ ~rawShown
    /\ prompt.fn = "refine_plan"
    /\ \E p \in Paths : fs[p] # Absent

\* the operator has rejected a plan or answered yes to the outcome question
OperatorEnds == exitReason \in {"rejected", "done"}

\* C15: no step leaves Done or Aborted; once the operator rejects a plan or
\* answers yes the session reaches Done or Aborted and stays there; every round
\* passes through the approval prompt: a run, an outcome question and a
\* refinement happen only for an approved plan, and a further get_plan call
\* happens only after such a refinement.
C15_EndsOnlyByOperator ==
    /\ [][pc \notin {"Done", "Aborted"}]_vars
    /\ [](OperatorEnds => pc \in {"Done", "Aborted"})
    /\ [](pc \in {"Executing", "AwaitingOutcome", "Refining", "Done"} => approved)
    /\ []((pc = "AwaitingPlan" /\ modelCalls > 0) => prompt.fn = "refine_plan")
    /\ [][(pc = "AwaitingApproval" /\ pc' # "Aborted") => approved']_vars

\* with every call returning, an operator who ends the session is obeyed for good
OperatorEndIsFinal == (<>OperatorEnds) => <>[](pc \in {"Done", "Aborted"})

\* C15 witness: with the operator approving every plan and answering no, the
\* loop has come round to Refining again and only the bound on model calls
\* keeps it from going on
C15_Witness ==
    /\ modelCalls = MaxCalls
    /\ pc = "Refining"
    /\ approved
    /\ success
    /\ \E f \in Feedbacks : error_details = <<f>>

\* a model call is made in this step
ModelCalled == modelCalls' = modelCalls + 1

\* C16: once read, the task is never modified; every prompt sent to the model,
\* get_plan's and refine_plan's alike, embeds that task; a refinement prompt
\* also embeds what triggered it: execute_plan's failure message after a
\* failed run, the operator's feedback after a no to the outcome question.
C16_PromptsEmbedTask ==
    /\ [][task # Absent => task' = task]_vars
    /\ [](prompt.fn # "none" => (task \in Tasks /\ prompt.task = task))
    /\ [][ModelCalled => prompt'.task = task]_vars
    /\ [][(ModelCalled /\ pc = "AwaitingPlan") => prompt'.fn = "get_plan"]_vars
    /\ [][(ModelCalled /\ pc = "Refining")
            => /\ prompt'.fn = "refine_plan"
               /\ prompt'.error_details = error_details
               /\ prompt'.error_details # <<>>]_vars
    /\ []((pc = "Refining" /\ success)
            => \E f \in Feedbacks : error_details = <<f>>)
    /\ []((pc = "Refining" /\ ~success)
            => (error_details = message /\ trace # <<>>
                /\ trace[Len(trace)].status \in {"failed", "error"}))

\* C16 witness: a refinement prompt carrying the second task and the operator's
\* feedback has been sent after a successful run
C16_Witness ==
    /\ prompt.fn = "refine_plan"
    /\ task = "t2"
    /\ prompt.task = "t2"
    /\ prompt.error_details = <<"fb">>
    /\ success
    /\ modelCalls = 2

\* the numbers of the run's successful file entries that wrote path p
WritesTo(p) ==
    { m \in DOMAIN trace :
        trace[m].kind = "file" /\ trace[m].status = "success" /\ trace[m].target = p }

LastWriteTo(p) == CHOOSE m \in WritesTo(p) : \A k \in WritesTo(p) : k <= m

\* C17: a path some file step of the run wrote successfully holds the code of
\* the last such step, whether the run is still going, succeeded or stopped at a
\* failing step; and a step changes a path only by being a successful file step
\* that targets it, so every other path keeps its content.
C17_LastSuccessfulWriteStands ==
    /\ [](\A p \in Paths :
            WritesTo(p) # {} => fs[p] = plan.steps[trace[LastWriteTo(p)].idx].code)
    /\ [][\A p \in Paths :
            fs'[p] # fs[p]
              => /\ Len(trace') = Len(trace) + 1
                 /\ Len(trace') \in {m \in DOMAIN trace' :
                       /\ trace'[m].kind = "file"
                       /\ trace'[m].status = "success"
                       /\ trace'[m].target = p}]_vars

\* a plan object whose steps sequence is empty
EmptyPlan(doc) == IsDict(doc) /\ doc.has_steps /\ doc.steps = <<>>

\* C18: a plan with an empty steps sequence is taken as a plan by get_plan and
\* refine_plan, is shown without a step panel and put to the operator, and once
\* approved execute_plan attempts nothing, leaves every path as it was and reports
\* success, so the session asks the outcome question.
C18_EmptyPlanSucceeds ==
    /\ [][(ModelCalled /\ exitReason' # "model call raised" /\ EmptyPlan(plan'))
            => pc' \in {"Presenting", "AwaitingPlan"}]_vars
    /\ [][(pc = "Presenting" /\ EmptyPlan(plan) /\ plan.plan_description # Absent)
            => (pc' = "AwaitingApproval" /\ DOMAIN shown' = {})]_vars
    /\ [][(pc = "Executing" /\ EmptyPlan(plan))
            => /\ pc' = "AwaitingOutcome"
               /\ success'
               /\ message' = AllStepsCompleted
               /\ trace = <<>> /\ trace' = <<>>
               /\ fs' = fs]_vars
    /\ []((pc = "AwaitingOutcome" /\ EmptyPlan(plan)) => (success /\ trace = <<>>))

\* C18 witness: an approved plan without steps has been run and the outcome
\* question is next
C18_Witness ==
    /\ pc = "AwaitingOutcome"
    /\ EmptyPlan(plan)
    /\ approved
    /\ success
    /\ message = AllStepsCompleted
    /\ trace = <<>>
    /\ \A p \in Paths : fs[p] = Absent

====
